---- MODULE Spec2Model ----
(***************************************************************************)
(* A model of the vcontrold protocol client (src/src/vcontrold-client.ts,  *)
(* class VcontroldClient, lines 19-207) together with its only caller, the *)
(* polling Adapter (src/src/adapter.ts), the TCP socket events that drive  *)
(* it and the vcontrold daemon at the other end of the socket.             *)
(*                                                                         *)
(* Every action is one JavaScript task: a socket event handler, a timer    *)
(* callback, a call made by the process, or one promise continuation       *)
(* (microtask).  Node runs them one at a time, and runs all pending        *)
(* microtasks before the next event or timer.                              *)
(***************************************************************************)
EXTENDS Integers, Sequences, FiniteSets, TLC

\* Bounds of the model.
MaxReq == 4           \* requests accepted by sendCommand
MaxConn == 2          \* net.Socket objects created by connect()
MaxLen == 3           \* tokens of a daemon output drawn as input
MaxTicks == 6         \* timer periods the clock runs for

\* config.vcontrold.commandTimeout (VCONTROLD_COMMAND_TIMEOUT), its default,
\* in ms.
commandTimeout == 25000

\* The delay sendCommand passes to setTimeout, in ms.
TimeoutMs == 5000

\* config.sensors: the default sensor list.
sensors == <<"getTempA", "getTempWW">>

NumSensors == Len(sensors)
Ids == 1..MaxReq
Runs == 1..MaxReq     \* every run that starts has a request accepted
Conns == 1..MaxConn

VARIABLES
  \* VcontroldClient fields
  socket,            \* 0 (null) or the number of the net.Socket held
  connected,
  reconnectTimer,    \* TRUE when the field refers to a timer (not null)
  responseBuffer,    \* text, a sequence of tokens
  requestQueue,      \* sequence of request ids
  currentRequest,    \* 0 (null) or a request id
  isProcessingQueue,
  \* the QueuedRequest objects with their promise and timer
  reqs,
  \* the network
  sockState,         \* per socket: unused, connecting, open, ended, closed
  wire,              \* text sent by the daemon and not yet delivered
  srvInbox,          \* commands written and not yet answered by the daemon
  \* the Adapter
  started,
  shuttingDown,
  pollTimer,         \* TRUE when the field refers to an interval timer
  runs,              \* per pollSensors run: position in sensors, awaited request
  jobs,              \* promise continuations pending (microtask queue)
  \* the timers of the runtime
  reconnectPending,  \* number of reconnect timers set and neither fired nor cleared
  pollIntervals,     \* number of interval timers set and not cleared
  now,               \* the clock, in ms (it runs in TimedSpec only)
  \* observation
  writes,            \* every socket.write, in order
  settled,           \* every resolve/reject invocation, in order
  frames,            \* every non-empty line handleData took from the stream
  published          \* every mqtt.publishState of a poll run, in order

vars == <<socket, connected, reconnectTimer, responseBuffer, requestQueue,
          currentRequest, isProcessingQueue, reqs, sockState, wire, srvInbox,
          started, shuttingDown, pollTimer, runs, jobs, reconnectPending,
          pollIntervals, now, writes, settled, frames,
          published>>

\* The whole state as one record, so that a handler is a function on states.
St ==
  [socket |-> socket, connected |-> connected, reconnectTimer |-> reconnectTimer,
   responseBuffer |-> responseBuffer, requestQueue |-> requestQueue,
   currentRequest |-> currentRequest, isProcessingQueue |-> isProcessingQueue,
   reqs |-> reqs, sockState |-> sockState, wire |-> wire, srvInbox |-> srvInbox,
   started |-> started, shuttingDown |-> shuttingDown, pollTimer |-> pollTimer,
   runs |-> runs, jobs |-> jobs, reconnectPending |-> reconnectPending,
   pollIntervals |-> pollIntervals, now |-> now, writes |-> writes, settled |-> settled, frames |-> frames,
   published |-> published]

\* The step to state s0 (named s once it is evaluated).
Apply(s0) == \E s \in {s0} :
  /\ socket' = s.socket
  /\ connected' = s.connected
  /\ reconnectTimer' = s.reconnectTimer
  /\ responseBuffer' = s.responseBuffer
  /\ requestQueue' = s.requestQueue
  /\ currentRequest' = s.currentRequest
  /\ isProcessingQueue' = s.isProcessingQueue
  /\ reqs' = s.reqs
  /\ sockState' = s.sockState
  /\ wire' = s.wire
  /\ srvInbox' = s.srvInbox
  /\ started' = s.started
  /\ shuttingDown' = s.shuttingDown
  /\ pollTimer' = s.pollTimer
  /\ runs' = s.runs
  /\ jobs' = s.jobs
  /\ writes' = s.writes
  /\ settled' = s.settled
  /\ reconnectPending' = s.reconnectPending
  /\ pollIntervals' = s.pollIntervals
  /\ now' = s.now
  /\ frames' = s.frames
  /\ published' = s.published

----------------------------------------------------------------------------
(* Text.  A text is a sequence of tokens [c, of, on]: c is the characters,  *)
(* of is the request whose command the daemon was answering when it sent    *)
(* them (0 for the greeting), on is the socket whose data event handed them *)
(* to the client (0 while they are on their way).  The token "\n" is the    *)
(* newline, " " is whitespace.                                              *)

Prompt == "vctrld>"
NL == "\n"
SP == " "

Tok(c, of) == [c |-> c, of |-> of, on |-> 0]

\* The text t as the data event of socket k hands it over.
Received(t, k) == [i \in 1..Len(t) |-> [t[i] EXCEPT !.on = k]]

\* The characters of a text, without the origin marks.
Chars(t) == [i \in 1..Len(t) |-> t[i].c]

\* String.prototype.split("\n"): the pieces between newlines; always at
\* least one piece, the last one being the text after the last newline.
RECURSIVE split(_)
split(t) ==
  IF \A i \in 1..Len(t) : t[i].c # NL
  THEN <<t>>
  ELSE LET i == CHOOSE i \in 1..Len(t) :
                  /\ t[i].c = NL
                  /\ \A j \in 1..(i-1) : t[j].c # NL
       IN <<SubSeq(t, 1, i-1)>> \o split(SubSeq(t, i+1, Len(t)))

\* String.prototype.trim(): whitespace removed at both ends.
RECURSIVE trim(_)
trim(t) ==
  IF t = <<>> THEN t
  ELSE IF t[1].c = SP THEN trim(Tail(t))
  ELSE IF t[Len(t)].c = SP THEN trim(SubSeq(t, 1, Len(t)-1))
  ELSE t

----------------------------------------------------------------------------
(* The QueuedRequest objects.  A request is numbered when sendCommand       *)
(* accepts it; outcome is the state of its promise.                         *)

NoRequest ==
  [command |-> "", timer |-> FALSE, outcome |-> "unused", value |-> <<>>,
   settles |-> 0, run |-> 0, conn |-> 0, armedAt |-> 0]

Accepted(s) == {id \in Ids : s.reqs[id].outcome # "unused"}

\* A clearTimeout that was forgotten.
clearTimeout_Forgotten(s, id) == s

\* clearTimeout(req.timeout)
clearTimeout(s, id) == [s EXCEPT !.reqs[id].timer = FALSE]

\* A call of the promise's resolve or reject.  Only the first call settles
\* the promise; settling queues the continuation of the run awaiting it.
settle(s, id, how, val) ==
  LET first == s.reqs[id].outcome = "pending" IN
  [s EXCEPT !.reqs[id] = [@ EXCEPT !.settles = @ + 1,
                                   !.outcome = IF first THEN how ELSE @,
                                   !.value = IF first THEN val ELSE @],
            !.settled = Append(@, [id |-> id, how |-> how]),
            !.jobs = IF first THEN Append(@, s.reqs[id].run) ELSE @]

resolve(s, id, val) == settle(s, id, "resolved", val)
reject(s, id, how) == settle(s, id, how, <<>>)

----------------------------------------------------------------------------
(* VcontroldClient                                                          *)

Live(st) == st \in {"connecting", "open"}

\* socket.write(command + "\n"): the command reaches the daemon when the
\* socket is (or becomes) open; a write on a destroyed socket is lost.
\* The record kept of the write: prev is the value currentRequest had when
\* the dispatch began.
socketWrite(s, id, prev) ==
  [s EXCEPT !.writes = Append(@, [id |-> id, sock |-> s.socket, prev |-> prev,
                                  text |-> <<s.reqs[id].command, NL>>]),
            !.srvInbox = IF s.socket # 0 /\ Live(s.sockState[s.socket])
                         THEN Append(@, id) ELSE @]

\* Variants of processNextRequest with a slip: one that does not look at
\* currentRequest, one that takes the newest queued request.
processNextRequest_NoBusyCheck(s) ==
  IF Len(s.requestQueue) = 0
  THEN [s EXCEPT !.isProcessingQueue = FALSE]
  ELSE socketWrite([s EXCEPT !.isProcessingQueue = TRUE,
                             !.currentRequest = Head(s.requestQueue),
                             !.requestQueue = Tail(@)],
                   Head(s.requestQueue), s.currentRequest)

processNextRequest_Newest(s) ==
  IF s.currentRequest # 0 \/ Len(s.requestQueue) = 0
  THEN [s EXCEPT !.isProcessingQueue = FALSE]
  ELSE LET n == Len(s.requestQueue) IN
       socketWrite([s EXCEPT !.isProcessingQueue = TRUE,
                             !.currentRequest = s.requestQueue[n],
                             !.requestQueue = SubSeq(@, 1, n - 1)],
                   s.requestQueue[n], s.currentRequest)

\* One that leaves isProcessingQueue as it is when it has nothing to send.
processNextRequest_KeepsFlag(s) ==
  IF s.currentRequest # 0 \/ Len(s.requestQueue) = 0
  THEN s
  ELSE socketWrite([s EXCEPT !.isProcessingQueue = TRUE,
                             !.currentRequest = Head(s.requestQueue),
                             !.requestQueue = Tail(@)],
                   Head(s.requestQueue), s.currentRequest)

processNextRequest(s) ==
  IF s.currentRequest # 0 \/ Len(s.requestQueue) = 0
  THEN [s EXCEPT !.isProcessingQueue = FALSE]
  ELSE socketWrite([s EXCEPT !.isProcessingQueue = TRUE,
                             !.currentRequest = Head(s.requestQueue),
                             !.requestQueue = Tail(@)],
                   Head(s.requestQueue), s.currentRequest)

\* A deliverLine that keeps an unmatched line for the next request.
deliverLine_KeepUnmatched(s, line) ==
  LET trimmed == trim(line) IN
  IF trimmed = <<>> THEN s
  ELSE LET s0 == [s EXCEPT !.frames =
                     Append(@, [text |-> trimmed, to |-> s.currentRequest])]
       IN IF s0.currentRequest # 0
          THEN LET cur == s0.currentRequest
                   s1 == resolve(clearTimeout(s0, cur), cur, trimmed)
               IN processNextRequest([s1 EXCEPT !.currentRequest = 0])
          ELSE [s0 EXCEPT !.responseBuffer = trimmed \o @]

\* The body of lines.forEach in handleData, for one line.
deliverLine(s, line) ==
  LET trimmed == trim(line) IN
  IF trimmed = <<>> THEN s
  ELSE LET s0 == [s EXCEPT !.frames =
                     Append(@, [text |-> trimmed, to |-> s.currentRequest])]
       IN IF s0.currentRequest # 0
          THEN LET cur == s0.currentRequest
                   s1 == resolve(clearTimeout(s0, cur), cur, trimmed)
               IN processNextRequest([s1 EXCEPT !.currentRequest = 0])
          ELSE s0   \* emit("response", trimmed): nobody listens

RECURSIVE deliverLines(_, _)
deliverLines(s, lines) ==
  IF lines = <<>> THEN s
  ELSE deliverLines(deliverLine(s, Head(lines)), Tail(lines))

\* A handleData that splits the new data alone and forgets what it kept.
handleData_DropBuffer(s, data) ==
  LET lines == split(data)
      s1 == [s EXCEPT !.responseBuffer = lines[Len(lines)]]
  IN deliverLines(s1, SubSeq(lines, 1, Len(lines) - 1))

handleData(s, data) ==
  LET lines == split(s.responseBuffer \o data)
      s1 == [s EXCEPT !.responseBuffer = lines[Len(lines)]]
  IN deliverLines(s1, SubSeq(lines, 1, Len(lines) - 1))

\* A timer callback that rejects only a request it found in currentRequest
\* or in requestQueue.
timeoutCallback_RejectIfHeld(s, id) ==
  LET command == s.reqs[id].command
      held == s.currentRequest = id
              \/ \E i \in 1..Len(s.requestQueue) : s.requestQueue[i] = id
      s1 == [s EXCEPT !.reqs[id].timer = FALSE]
      s2 == IF s1.currentRequest # 0
               /\ s1.reqs[s1.currentRequest].command = command
            THEN [s1 EXCEPT !.currentRequest = 0] ELSE s1
      s3 == [s2 EXCEPT !.requestQueue =
                 SelectSeq(@, LAMBDA q : s2.reqs[q].command # command)]
  IN processNextRequest(IF held THEN reject(s3, id, "timeout") ELSE s3)

\* The callback of the timer armed by sendCommand for request id.
timeoutCallback(s, id) ==
  LET command == s.reqs[id].command
      s1 == [s EXCEPT !.reqs[id].timer = FALSE]
      s2 == IF s1.currentRequest # 0
               /\ s1.reqs[s1.currentRequest].command = command
            THEN [s1 EXCEPT !.currentRequest = 0] ELSE s1
      s3 == [s2 EXCEPT !.requestQueue =
                 SelectSeq(@, LAMBDA q : s2.reqs[q].command # command)]
  IN processNextRequest(reject(s3, id, "timeout"))

\* A sendCommand without the check of connected and socket.
sendCommand_NoCheck(s, run, command) ==
  LET id == Cardinality(Accepted(s)) + 1
      s1 == [s EXCEPT !.reqs[id] = [command |-> command, timer |-> TRUE,
                                    outcome |-> "pending", value |-> <<>>,
                                    settles |-> 0, run |-> run,
                                    conn |-> s.socket, armedAt |-> s.now],
                      !.requestQueue = Append(@, id),
                      !.runs[run].awaiting = id]
  IN IF ~s1.isProcessingQueue THEN processNextRequest(s1) ELSE s1

\* sendCommand(command), called by pollSensors run `run`.  A call made while
\* not connected rejects at once: the run's continuation is queued and no
\* request is created (the rejection is logged with request id 0).
sendCommand(s, run, command) ==
  IF ~s.connected \/ s.socket = 0
  THEN [s EXCEPT !.runs[run].awaiting = 0, !.jobs = Append(@, run),
                 !.settled = Append(@, [id |-> 0, how |-> "notconnected"])]
  ELSE LET id == Cardinality(Accepted(s)) + 1
           s1 == [s EXCEPT !.reqs[id] = [command |-> command, timer |-> TRUE,
                                         outcome |-> "pending", value |-> <<>>,
                                         settles |-> 0, run |-> run,
                                         conn |-> s.socket, armedAt |-> s.now],
                           !.requestQueue = Append(@, id),
                           !.runs[run].awaiting = id]
       IN IF ~s1.isProcessingQueue THEN processNextRequest(s1) ELSE s1

\* socket.destroy(): the socket stops; its close event is still to come.
destroy(s, k) ==
  IF Live(s.sockState[k])
  THEN [s EXCEPT !.sockState[k] = "ended", !.wire = <<>>, !.srvInbox = <<>>]
  ELSE s

Created(s) == {k \in Conns : s.sockState[k] # "unused"}

connect(s) ==
  LET s1 == IF s.socket # 0 THEN destroy(s, s.socket) ELSE s
      k == Cardinality(Created(s)) + 1
  IN [s1 EXCEPT !.socket = k, !.sockState[k] = "connecting"]

\* The field set to null without clearTimeout.
clearReconnect_NoClearTimeout(s) == [s EXCEPT !.reconnectTimer = FALSE]

\* if (this.reconnectTimer) { clearTimeout(this.reconnectTimer);
\*                            this.reconnectTimer = null; }
clearReconnect(s) ==
  IF s.reconnectTimer
  THEN [s EXCEPT !.reconnectTimer = FALSE, !.reconnectPending = @ - 1]
  ELSE s

\* A scheduleReconnect with a ceiling: it retries after the first socket only.
scheduleReconnect_OnlyFirst(s) ==
  IF s.reconnectTimer \/ Cardinality(Created(s)) > 1 THEN s
  ELSE [s EXCEPT !.reconnectTimer = TRUE, !.reconnectPending = @ + 1]

scheduleReconnect(s) ==
  IF s.reconnectTimer THEN s
  ELSE [s EXCEPT !.reconnectTimer = TRUE, !.reconnectPending = @ + 1]

RECURSIVE rejectAll(_, _)
rejectAll(s, q) ==
  IF q = <<>> THEN s
  ELSE rejectAll(reject(clearTimeout(s, Head(q)), Head(q), "closed"), Tail(q))

disconnect(s) ==
  LET s1 == clearReconnect(s)
      s2 == IF s1.currentRequest # 0
            THEN [reject(clearTimeout(s1, s1.currentRequest),
                         s1.currentRequest, "closed")
                    EXCEPT !.currentRequest = 0]
            ELSE s1
      s3 == [rejectAll(s2, s2.requestQueue)
               EXCEPT !.requestQueue = <<>>, !.isProcessingQueue = FALSE]
      s4 == IF s3.socket # 0
            THEN [destroy(s3, s3.socket) EXCEPT !.socket = 0]
            ELSE s3
  IN [s4 EXCEPT !.connected = FALSE]

----------------------------------------------------------------------------
(* Adapter                                                                  *)

NoRun == [pos |-> 0, awaiting |-> 0]
StartedRuns(s) == {r \in Runs : s.runs[r].pos # 0}

\* pollSensors() up to its first await: a new run that sends the first
\* sensor's command.
pollSensors(s) ==
  IF ~s.connected THEN s
  ELSE LET r == Cardinality(StartedRuns(s)) + 1
       IN sendCommand([s EXCEPT !.runs[r] = [pos |-> 1, awaiting |-> 0]],
                      r, sensors[1])

\* parseResponse(response): the number in the text, or the trimmed text;
\* the empty text stands for null.
parseResponse(response) == trim(response)

\* The end of the loop body for the sensor at runs[r].pos, once the awaited
\* sendCommand has settled: the value of a resolved call is published, a
\* rejection is caught and logged.
endOfTry(s, r) ==
  LET id == s.runs[r].awaiting IN
  IF id # 0 /\ s.reqs[id].outcome = "resolved"
            /\ parseResponse(s.reqs[id].value) # <<>>
  THEN [s EXCEPT !.published =
          Append(@, [run |-> r, sensor |-> s.runs[r].pos])]
  ELSE s

\* A pollSensors without try/catch: a rejection ends the run.
resumeRun_NoCatch(s, r) ==
  LET id == s.runs[r].awaiting
      s0 == endOfTry(s, r)
      next == s.runs[r].pos + 1
  IN IF id = 0 \/ s.reqs[id].outcome # "resolved"
     THEN [s0 EXCEPT !.runs[r] = [pos |-> NumSensors + 1, awaiting |-> 0]]
     ELSE IF next <= NumSensors
     THEN sendCommand([s0 EXCEPT !.runs[r].pos = next], r, sensors[next])
     ELSE [s0 EXCEPT !.runs[r] = [pos |-> next, awaiting |-> 0]]

\* pollSensors() resumed after the awaited sendCommand settled: the end of
\* the loop body, then the next sensor's command, or the end of the run.
resumeRun(s, r) ==
  LET s0 == endOfTry(s, r)
      next == s.runs[r].pos + 1
  IN IF next <= NumSensors
     THEN sendCommand([s0 EXCEPT !.runs[r].pos = next], r, sensors[next])
     ELSE [s0 EXCEPT !.runs[r] = [pos |-> next, awaiting |-> 0]]

\* A startPolling that does not look at shuttingDown.
startPolling_IgnoresShutdown(s) ==
  IF s.pollTimer THEN s
  ELSE [pollSensors(s) EXCEPT !.pollTimer = TRUE, !.pollIntervals = @ + 1]

\* An immediate poll, then setInterval.
startPolling(s) ==
  IF s.pollTimer \/ s.shuttingDown THEN s
  ELSE [pollSensors(s) EXCEPT !.pollTimer = TRUE, !.pollIntervals = @ + 1]

\* if (this.pollTimer) { clearInterval(this.pollTimer); this.pollTimer = null; }
stopPolling(s) ==
  IF s.pollTimer
  THEN [s EXCEPT !.pollTimer = FALSE, !.pollIntervals = @ - 1]
  ELSE s

\* Adapter.stop() up to its await.
stop(s) == disconnect(stopPolling([s EXCEPT !.shuttingDown = TRUE]))

----------------------------------------------------------------------------
(* The socket's event handlers, with the Adapter's listeners they call.     *)

\* A connect handler that keeps what the buffer held.
onConnect_KeepBuffer(s) ==
  startPolling(clearReconnect([s EXCEPT !.connected = TRUE]))

onConnect(s) ==
  startPolling(clearReconnect([s EXCEPT !.connected = TRUE,
                                        !.responseBuffer = <<>>]))

onClose(s) == scheduleReconnect(stopPolling([s EXCEPT !.connected = FALSE]))

----------------------------------------------------------------------------
(* The vcontrold daemon: it greets every connection with its prompt, and    *)
(* answers each command line, in order, with a value line and the prompt.   *)

Greeting == <<Tok(Prompt, 0)>>

\* The value line of the answer to a command, before its newline.
Payload(command) ==
  IF command = "getTempA" THEN <<"23.4">> ELSE <<"48.0", SP>>

Reply(id, command) ==
  [i \in 1..Len(Payload(command)) |-> Tok(Payload(command)[i], id)]
  \o <<Tok(NL, id), Tok(Prompt, id)>>

----------------------------------------------------------------------------
(* Actions                                                                  *)

Init ==
  /\ socket = 0
  /\ connected = FALSE
  /\ reconnectTimer = FALSE
  /\ responseBuffer = <<>>
  /\ requestQueue = <<>>
  /\ currentRequest = 0
  /\ isProcessingQueue = FALSE
  /\ reqs = [id \in Ids |-> NoRequest]
  /\ sockState = [k \in Conns |-> "unused"]
  /\ wire = <<>>
  /\ srvInbox = <<>>
  /\ started = FALSE
  /\ shuttingDown = FALSE
  /\ pollTimer = FALSE
  /\ runs = [r \in Runs |-> NoRun]
  /\ jobs = <<>>
  /\ writes = <<>>
  /\ settled = <<>>
  /\ reconnectPending = 0
  /\ pollIntervals = 0
  /\ now = 0
  /\ frames = <<>>
  /\ published = <<>>

\* No promise continuation is pending: the next event or timer may run.
Idle == jobs = <<>>

CanConnect == Cardinality(Created(St)) < MaxConn

\* The bound on requests.  Free is the number of requests that may still be
\* accepted, Owed the number the runs under way may still ask for.
Free == MaxReq - Cardinality(Accepted(St))
Owed == Cardinality({p \in Runs \X (1..NumSensors) : 
                       runs[p[1]].pos # 0 /\ runs[p[1]].pos < p[2]})
\* A new run may start: its first request can be accepted.
CanPoll == Free >= 1
\* The run at the head of jobs may resume: if it sends another command,
\* the request can be accepted.
CanResume ==
  LET r == Head(jobs) IN
  (runs[r].pos < NumSensors /\ connected /\ socket # 0) => Free >= 1

\* Adapter.start(): the first connect().
Start ==
  /\ Idle /\ ~started /\ CanConnect
  /\ Apply(connect([St EXCEPT !.started = TRUE]))

\* Adapter.stop(), on a signal.
Stop ==
  /\ Idle /\ started /\ ~shuttingDown
  /\ Apply(stop(St))

\* The socket's connect event; the daemon's greeting is on its way.
SocketConnect(k) ==
  /\ Idle /\ sockState[k] = "connecting"
  /\ (pollTimer \/ shuttingDown \/ CanPoll)
  /\ Apply(onConnect([St EXCEPT !.sockState[k] = "open", !.wire = Greeting]))

\* A data event with the first n tokens the daemon sent.
SocketData(k, n) ==
  /\ Idle /\ sockState[k] = "open" /\ n \in 1..Len(wire)
  /\ Apply(handleData([St EXCEPT !.wire = SubSeq(wire, n + 1, Len(wire))],
                      Received(SubSeq(wire, 1, n), k)))

\* The socket's error event (connect failure, reset): the handler only
\* re-emits the error; the close event follows.
SocketError(k) ==
  /\ Idle /\ Live(sockState[k])
  /\ Apply(destroy(St, k))

\* The daemon closes the connection.
SocketEnd(k) ==
  /\ Idle /\ sockState[k] = "open"
  /\ Apply(destroy(St, k))

\* The socket's close event.
SocketClose(k) ==
  /\ Idle /\ sockState[k] = "ended"
  /\ Apply(onClose([St EXCEPT !.sockState[k] = "closed"]))

\* A reconnect timer fires.
ReconnectTimeout ==
  /\ Idle /\ reconnectPending > 0 /\ CanConnect
  /\ Apply(connect([St EXCEPT !.reconnectTimer = FALSE,
                              !.reconnectPending = @ - 1]))

\* All request timers run for the same 5000 ms, so they fire in the order
\* in which they were armed.
TimerDue(id) ==
  /\ reqs[id].timer
  /\ \A j \in Ids : j < id => ~reqs[j].timer

\* The timer of request id fires.
CommandTimeout(id) ==
  /\ Idle /\ TimerDue(id)
  /\ Apply(timeoutCallback(St, id))

\* The poll interval timer fires.
PollTick ==
  /\ Idle /\ pollIntervals > 0 /\ CanPoll
  /\ Apply(pollSensors(St))

\* The continuation of a pollSensors run whose awaited call settled.
PollResume ==
  /\ jobs # <<>> /\ CanResume
  /\ Apply(resumeRun([St EXCEPT !.jobs = Tail(@)], Head(jobs)))

\* The daemon answers the oldest command it has received.
ServerReply ==
  /\ Idle /\ srvInbox # <<>>
  /\ \E k \in Conns : sockState[k] = "open"
  /\ LET id == Head(srvInbox) IN
     Apply([St EXCEPT !.srvInbox = Tail(@),
                      !.wire = @ \o Reply(id, reqs[id].command)])

Next ==
  \/ Start
  \/ Stop
  \/ \E k \in Conns : SocketConnect(k)
  \/ \E k \in Conns, n \in 1..Len(wire) : SocketData(k, n)
  \/ \E k \in Conns : SocketError(k)
  \/ \E k \in Conns : SocketEnd(k)
  \/ \E k \in Conns : SocketClose(k)
  \/ ReconnectTimeout
  \/ \E id \in Ids : CommandTimeout(id)
  \/ PollTick
  \/ PollResume
  \/ ServerReply

Spec == Init /\ [][Next]_vars

\* The same program where a run starts only when every request it may ask
\* for can still be accepted, so that the bound on requests never stops a
\* run half way; armed request timers fire and pending continuations run.
CanPollAll == Free - Owed >= NumSensors

NextAll ==
  \/ Start
  \/ Stop
  \/ \E k \in Conns :
       (pollTimer \/ shuttingDown \/ CanPollAll) /\ SocketConnect(k)
  \/ \E k \in Conns, n \in 1..Len(wire) : SocketData(k, n)
  \/ \E k \in Conns : SocketError(k)
  \/ \E k \in Conns : SocketEnd(k)
  \/ \E k \in Conns : SocketClose(k)
  \/ ReconnectTimeout
  \/ \E id \in Ids : CommandTimeout(id)
  \/ CanPollAll /\ PollTick
  \/ PollResume
  \/ ServerReply

\* At most one of these steps is possible in a state: a pending continuation
\* runs before any timer, and the request timers fire in order.
TimerOrJob == PollResume \/ \E id \in Ids : CommandTimeout(id)

\* A pending reconnect timer fires as well.
FairSpec ==
  Init /\ [][NextAll]_vars /\ WF_vars(TimerOrJob) /\ WF_vars(ReconnectTimeout)

----------------------------------------------------------------------------
(* The client fed with any output of the daemon.  The program is taken in   *)
(* the state it has after start() and the socket's connect event, with the  *)
(* poll's first command in flight; the text on its way from the daemon is   *)
(* drawn from every text of at most MaxLen tokens, and arrives in any       *)
(* fragmentation.                                                           *)

ErrPrefix == "ERR:"

Alphabet == {"23.4", ErrPrefix, SP, NL, Prompt}

RECURSIVE TextsOfLen(_)
TextsOfLen(n) ==
  IF n = 0 THEN {<<>>}
  ELSE {Append(x, Tok(c, 1)) : x \in TextsOfLen(n - 1), c \in Alphabet}

Texts == UNION {TextsOfLen(n) : n \in 1..MaxLen}

\* The state after construction, as a record.
Initial ==
  [socket |-> 0, connected |-> FALSE, reconnectTimer |-> FALSE,
   responseBuffer |-> <<>>, requestQueue |-> <<>>, currentRequest |-> 0,
   isProcessingQueue |-> FALSE, reqs |-> [id \in Ids |-> NoRequest],
   sockState |-> [k \in Conns |-> "unused"], wire |-> <<>>, srvInbox |-> <<>>,
   started |-> FALSE, shuttingDown |-> FALSE, pollTimer |-> FALSE,
   runs |-> [r \in Runs |-> NoRun], jobs |-> <<>>, reconnectPending |-> 0,
   pollIntervals |-> 0, now |-> 0, writes |-> <<>>, settled |-> <<>>, frames |-> <<>>,
   published |-> <<>>]

\* The state after start() and the connect event of the first socket.
Connected ==
  onConnect([connect([Initial EXCEPT !.started = TRUE])
               EXCEPT !.sockState[1] = "open"])

FrameInit ==
  \E text \in Texts, s \in {[Connected EXCEPT !.srvInbox = <<>>]} :
    /\ socket = s.socket
    /\ connected = s.connected
    /\ reconnectTimer = s.reconnectTimer
    /\ responseBuffer = s.responseBuffer
    /\ requestQueue = s.requestQueue
    /\ currentRequest = s.currentRequest
    /\ isProcessingQueue = s.isProcessingQueue
    /\ reqs = s.reqs
    /\ sockState = s.sockState
    /\ wire = text
    /\ srvInbox = s.srvInbox
    /\ started = s.started
    /\ shuttingDown = s.shuttingDown
    /\ pollTimer = s.pollTimer
    /\ runs = s.runs
    /\ jobs = s.jobs
    /\ reconnectPending = s.reconnectPending
    /\ pollIntervals = s.pollIntervals
    /\ now = s.now
    /\ writes = s.writes
    /\ settled = s.settled
    /\ frames = s.frames
    /\ published = s.published

FrameNext ==
  \/ \E k \in Conns, n \in 1..Len(wire) : SocketData(k, n)
  \/ \E id \in Ids : CommandTimeout(id)
  \/ PollTick
  \/ PollResume

FrameSpec == FrameInit /\ [][FrameNext]_vars

----------------------------------------------------------------------------
(* The client on the clock.  The program is taken in the state it has      *)
(* after start() and the socket's connect event, with the poll's first     *)
(* command written and the daemon's greeting on its way.  The clock moves  *)
(* in steps of one timer period; a request timer fires once its delay has  *)
(* elapsed, and the clock does not pass a timer that is due.               *)

\* The variables have the values of the record s.
StateIs(s) ==
  /\ socket = s.socket
  /\ connected = s.connected
  /\ reconnectTimer = s.reconnectTimer
  /\ responseBuffer = s.responseBuffer
  /\ requestQueue = s.requestQueue
  /\ currentRequest = s.currentRequest
  /\ isProcessingQueue = s.isProcessingQueue
  /\ reqs = s.reqs
  /\ sockState = s.sockState
  /\ wire = s.wire
  /\ srvInbox = s.srvInbox
  /\ started = s.started
  /\ shuttingDown = s.shuttingDown
  /\ pollTimer = s.pollTimer
  /\ runs = s.runs
  /\ jobs = s.jobs
  /\ reconnectPending = s.reconnectPending
  /\ pollIntervals = s.pollIntervals
  /\ now = s.now
  /\ writes = s.writes
  /\ settled = s.settled
  /\ frames = s.frames
  /\ published = s.published

TimedInit == StateIs([Connected EXCEPT !.wire = Greeting])

\* The time at which the timer of request id is due.
DueAt(id) == reqs[id].armedAt + TimeoutMs

\* One timer period passes.
Tick ==
  /\ Idle /\ now < MaxTicks * TimeoutMs
  /\ \A id \in Ids : reqs[id].timer => now < DueAt(id)
  /\ Apply([St EXCEPT !.now = @ + TimeoutMs])

\* The timer of request id fires, its delay having elapsed.
TimedTimeout(id) == now >= DueAt(id) /\ CommandTimeout(id)

TimedNext ==
  \/ Tick
  \/ \E id \in Ids : TimedTimeout(id)
  \/ \E k \in Conns, n \in 1..Len(wire) : SocketData(k, n)
  \/ ServerReply
  \/ PollTick
  \/ PollResume

TimedSpec == TimedInit /\ [][TimedNext]_vars

----------------------------------------------------------------------------
(* Properties                                                               *)

Resolved(id) == reqs[id].outcome = "resolved"
Pending(id) == reqs[id].outcome = "pending"
InQueue(id) == \E i \in 1..Len(requestQueue) : requestQueue[i] = id

\* C1: every value a sendCommand promise resolves with is text the daemon
\* sent in reply to that request's own command: no token of it comes from
\* the greeting or from the reply to another command.
C1_ResponseAttribution ==
  \A id \in Ids :
    Resolved(id) =>
      \A i \in 1..Len(reqs[id].value) : reqs[id].value[i].of = id

\* The commands written on the open (or opening) socket whose reply the
\* client has not received: not yet answered, or answered with text still
\* on its way.
Outstanding ==
  {srvInbox[i] : i \in 1..Len(srvInbox)}
    \cup ({wire[i].of : i \in 1..Len(wire)} \ {0})

\* C2: at most one command is written and unanswered at any time.
C2_SingleInFlight == Cardinality(Outstanding) <= 1

NumAccepted == Cardinality(Accepted(St))

\* C3: a command is written only by a dispatch that found currentRequest
\* null.  A sendCommand accepted while a request is in flight appends its
\* request to the queue and writes nothing; one accepted while the client
\* is idle with an empty queue makes its request the one in flight and
\* writes command + "\n" in the same step.
C3_DispatchGuard ==
  [][ /\ \A i \in (Len(writes) + 1)..Len(writes') : writes'[i].prev = 0
      /\ NumAccepted' = NumAccepted + 1 =>
           LET id == NumAccepted + 1 IN
           /\ currentRequest # 0 =>
                /\ requestQueue' = Append(requestQueue, id)
                /\ currentRequest' = currentRequest
                /\ writes' = writes
           /\ (currentRequest = 0 /\ requestQueue = <<>>) =>
                /\ currentRequest' = id
                /\ requestQueue' = <<>>
                /\ writes' = Append(writes,
                                    [id |-> id, sock |-> socket', prev |-> 0,
                                     text |-> <<reqs'[id].command, NL>>])
    ]_vars

\* A request waits in the queue behind the one in flight, which was written.
C3_Witness ==
  /\ currentRequest # 0
  /\ requestQueue # <<>>
  /\ \E i \in 1..Len(writes) : writes[i].id = currentRequest

ByResponse(i) == settled[i].how = "resolved"

\* C4: requests accepted on one connection are written in the order of
\* their acceptance, and responses resolve them in that order.
C4_FifoDelivery ==
  /\ \A i, j \in 1..Len(writes) :
       (i < j /\ reqs[writes[i].id].conn = reqs[writes[j].id].conn)
         => writes[i].id < writes[j].id
  /\ \A i, j \in 1..Len(settled) :
       (i < j /\ ByResponse(i) /\ ByResponse(j)
          /\ reqs[settled[i].id].conn = reqs[settled[j].id].conn)
         => settled[i].id < settled[j].id

\* Two requests of one connection were resolved by responses, a third of that
\* connection is in flight and a fourth waits in the queue behind it.
C4_Witness ==
  /\ currentRequest # 0
  /\ requestQueue # <<>>
  /\ \E i, j \in 1..Len(settled) :
       /\ i < j /\ ByResponse(i) /\ ByResponse(j)
       /\ reqs[settled[i].id].conn = reqs[settled[j].id].conn
       /\ reqs[currentRequest].conn = reqs[settled[i].id].conn
       /\ reqs[requestQueue[1]].conn = reqs[settled[i].id].conn

\* A step that handles a socket's close event.
CloseEvent == \E k \in Conns : sockState[k] = "ended" /\ sockState'[k] = "closed"

\* C5: the close event rejects the request in flight and every queued
\* request with a connection-closed error, clears their timeouts and leaves
\* currentRequest null and requestQueue empty.
C5_CloseDrainsAll ==
  [][ CloseEvent =>
        /\ currentRequest' = 0
        /\ requestQueue' = <<>>
        /\ \A id \in Ids :
             (id = currentRequest \/ InQueue(id)) =>
               (reqs'[id].outcome = "closed" /\ ~reqs'[id].timer)
    ]_vars

\* C6: once disconnect() has been called (Adapter.stop() calls it in the
\* step that sets shuttingDown), no reconnect timer is armed and connect()
\* creates no further socket.
C6_TerminalShutdown ==
  [][ shuttingDown =>
        /\ (reconnectTimer' => reconnectTimer)
        /\ \A k \in Conns : sockState[k] = "unused" => sockState'[k] = "unused"
    ]_vars

\* C7: resolve/reject is invoked at most once on every request, and a
\* settled request is neither in flight nor queued and has no armed timer.
C7_SettledOnce ==
  \A id \in Ids :
    /\ reqs[id].settles <= 1
    /\ reqs[id].outcome \notin {"unused", "pending"} =>
         (currentRequest # id /\ ~InQueue(id) /\ ~reqs[id].timer)

\* Requests were settled by each of the three paths.
C7_Witness ==
  /\ \E id \in Ids : reqs[id].outcome = "resolved"
  /\ \E id \in Ids : reqs[id].outcome = "timeout"
  /\ \E id \in Ids : reqs[id].outcome = "closed"

\* C8: every accepted request is eventually settled: whenever requests are
\* pending, a state follows in which every one of them is settled and no
\* request is pending.
C8_NoStuckCaller ==
  (\E id \in Ids : Pending(id)) ~> (\A id \in Ids : ~Pending(id))

\* A pending request that another request's timeout callback removed from
\* the queue: it is neither queued nor in flight.
C8_Witness ==
  \E id \in Ids : Pending(id) /\ currentRequest # id /\ ~InQueue(id)

\* The greeting of the open socket has not been received yet.
AwaitingGreeting ==
  /\ socket # 0
  /\ sockState[socket] = "open"
  /\ \E i \in 1..Len(wire) : wire[i].of = 0

\* C9: no command is written between a socket's connect event and the
\* arrival of the greeting, and the greeting is delivered to no request.
C9_GreetingGate ==
  [][ /\ Len(writes') > Len(writes) => ~AwaitingGreeting'
      /\ \A id \in Ids :
           reqs'[id].outcome = "resolved" =>
             \A i \in 1..Len(reqs'[id].value) : reqs'[id].value[i].of # 0
    ]_vars

\* The first command written on its socket.
FirstOnSocket(id) ==
  \E i \in 1..Len(writes) :
    /\ writes[i].id = id
    /\ \A j \in 1..(i - 1) : writes[j].sock # writes[i].sock

\* C10: the first command of a connection, resolved by its own reply
\* (payload, newline, prompt), resolves with exactly the trimmed payload.
C10_SuccessValue ==
  \A id \in Ids :
    (/\ Resolved(id)
     /\ FirstOnSocket(id)
     /\ \E i \in 1..Len(reqs[id].value) : reqs[id].value[i].of = id)
    => Chars(reqs[id].value)
         = Chars(trim([i \in 1..Len(Payload(reqs[id].command)) |->
                         Tok(Payload(reqs[id].command)[i], id)]))

\* The frame begins with the protocol's error prefix.
IsError(text) == text # <<>> /\ text[1].c = ErrPrefix

\* C11: a request whose reply frame begins with "ERR:" is rejected and not
\* resolved; a request whose reply frame does not is resolved with the
\* frame's text.
C11_RemoteError ==
  \A i \in 1..Len(frames) :
    LET id == frames[i].to IN
    id # 0 =>
      IF IsError(frames[i].text)
      THEN reqs[id].outcome \notin {"resolved", "pending"}
      ELSE Resolved(id) /\ reqs[id].value = frames[i].text

NotConnectedError == [id |-> 0, how |-> "notconnected"]

\* The next step is a pollSensors continuation that calls sendCommand.
CallsSendCommand == jobs # <<>> /\ runs[Head(jobs)].pos < NumSensors

\* C12: a sendCommand call made while connected is false or socket is null
\* rejects at once with the not-connected error (the caller's continuation
\* is queued in the same step), creates no request and arms no timeout,
\* writes nothing and leaves requestQueue, currentRequest and
\* isProcessingQueue unchanged.
C12_NotConnected ==
  [][ (CallsSendCommand /\ (~connected \/ socket = 0)) =>
        /\ settled' = Append(settled, NotConnectedError)
        /\ jobs' = Append(Tail(jobs), Head(jobs))
        /\ reqs' = reqs
        /\ writes' = writes
        /\ requestQueue' = requestQueue
        /\ currentRequest' = currentRequest
        /\ isProcessingQueue' = isProcessingQueue
    ]_vars

\* A sendCommand call was rejected with the not-connected error.
C12_Witness ==
  \E i \in 1..Len(settled) : settled[i] = NotConnectedError

Written(id) == \E i \in 1..Len(writes) : writes[i].id = id

\* The request was accepted and is neither settled nor dispatched: it waits
\* in requestQueue, or it was dropped from requestQueue unsettled.
Waiting(id) == Pending(id) /\ currentRequest # id /\ ~Written(id)

\* This step is the timeout callback of request id.
TimeoutFires(id) ==
  /\ reqs[id].timer /\ ~reqs'[id].timer
  /\ Len(settled') = Len(settled) + 1
  /\ settled'[Len(settled')] = [id |-> id, how |-> "timeout"]

\* C13: when the timeout fires of a request that is still waiting to be
\* dispatched, the request in flight stays in currentRequest, pending, with
\* its own timeout armed, whatever the command texts of the two.
C13_QueuedTimeoutKeepsInFlight ==
  [][ \A id \in Ids :
        (TimeoutFires(id) /\ Waiting(id) /\ currentRequest # 0) =>
          /\ currentRequest' = currentRequest
          /\ reqs'[currentRequest].timer
          /\ reqs'[currentRequest].outcome = "pending"
    ]_vars

\* The requests of q other than id, in the order of q.
Without(q, id) == SelectSeq(q, LAMBDA x : x # id)

\* C14: when the timeout fires of a request A that is still waiting to be
\* dispatched, A alone is rejected, with the command-timeout error, and
\* every other queued request stays queued in its order (the head of the
\* queue may be dispatched in the same step if nothing is in flight),
\* whatever the command texts.
C14_TimeoutIndependence ==
  [][ \A id \in Ids :
        (TimeoutFires(id) /\ Waiting(id)) =>
          /\ reqs'[id].outcome = "timeout"
          /\ \A j \in Ids \ {id} : reqs'[j].outcome = reqs[j].outcome
          /\ Without(requestQueue, id) =
               (IF currentRequest' # currentRequest /\ currentRequest' # 0
                THEN <<currentRequest'>> ELSE <<>>) \o requestQueue'
    ]_vars

\* The texts of the frames handleData has emitted in state s.
FrameTexts(s) == [i \in 1..Len(s.frames) |-> s.frames[i].text]

\* handleData called once for every token of data, in order.
RECURSIVE feedEach(_, _)
feedEach(s, data) ==
  IF data = <<>> THEN s
  ELSE feedEach(handleData(s, <<Head(data)>>), Tail(data))

SameFraming(s1, s2) ==
  FrameTexts(s1) = FrameTexts(s2) /\ s1.responseBuffer = s2.responseBuffer

\* C15: whatever is still to arrive on the connection, handing any part of
\* it to handleData in one call, in two calls split at any position, or in
\* one call per token, emits the same frames (count, text, order) and
\* leaves the same responseBuffer.
C15_FragmentationIndependence ==
  \A n \in 1..Len(wire) :
    LET data == SubSeq(wire, 1, n)
        whole == handleData(St, data)
    IN /\ SameFraming(whole, feedEach(St, data))
       /\ \A m \in 1..(n - 1) :
            SameFraming(whole, handleData(handleData(St, SubSeq(data, 1, m)),
                                          SubSeq(data, m + 1, n)))

\* A data event left the beginning of a line in responseBuffer, and the
\* line's end is still to arrive.
C15_Witness ==
  /\ responseBuffer # <<>>
  /\ wire # <<>>
  /\ wire[1].c = NL
  /\ trim(responseBuffer) # <<>>

HasPrompt(t) == \E i \in 1..Len(t) : t[i].c = Prompt
FirstPrompt(t) == CHOOSE i \in 1..Len(t) :
                    t[i].c = Prompt /\ \A j \in 1..(i - 1) : t[j].c # Prompt

\* Whitespace, newlines included, removed at both ends.
RECURSIVE trimAll(_)
trimAll(t) ==
  IF t = <<>> THEN t
  ELSE IF t[1].c \in {SP, NL} THEN trimAll(Tail(t))
  ELSE IF t[Len(t)].c \in {SP, NL} THEN trimAll(SubSeq(t, 1, Len(t) - 1))
  ELSE t

\* Framing by the prompt: one frame for every prompt in t, holding the text
\* before it, and the text after the last prompt.
RECURSIVE PromptFrames(_)
PromptFrames(t) ==
  IF ~HasPrompt(t) THEN <<>>
  ELSE <<trimAll(SubSeq(t, 1, FirstPrompt(t) - 1))>>
       \o PromptFrames(SubSeq(t, FirstPrompt(t) + 1, Len(t)))

RECURSIVE PromptRest(_)
PromptRest(t) ==
  IF ~HasPrompt(t) THEN t
  ELSE PromptRest(SubSeq(t, FirstPrompt(t) + 1, Len(t)))

\* C16: a data event makes handleData emit exactly one frame for every
\* prompt in the buffered text followed by the new data, each holding the
\* trimmed text before its prompt, embedded newlines included, and the text
\* after the last prompt becomes responseBuffer.
C16_SentinelFraming ==
  [][ Len(wire') < Len(wire) =>
        LET text == responseBuffer
                    \o Received(SubSeq(wire, 1, Len(wire) - Len(wire')),
                                socket)
        IN /\ [i \in 1..Len(frames') |-> frames'[i].text]
                = [i \in 1..Len(frames) |-> frames[i].text]
                  \o PromptFrames(text)
           /\ responseBuffer' = PromptRest(text)
    ]_vars

\* Socket k, the one the client holds, has had its close event: the close
\* was not caused by disconnect(), which sets socket to null.
ClosedUnasked(k) == socket = k /\ sockState[k] = "closed" /\ ~shuttingDown

\* C17: after the close event of the client's socket, not caused by
\* disconnect(), connect() is eventually invoked again and the client holds
\* the next socket (unless disconnect() is called first), however many
\* closes came before and whether or not the socket had ever connected.
\* Where no further socket can be created within MaxConn, the timer whose
\* callback calls connect() is pending instead.
C17_UnlimitedReconnect ==
  (\E k \in Conns : ClosedUnasked(k))
    ~> \/ socket # 0 /\ sockState[socket] # "closed"
       \/ shuttingDown
       \/ ~CanConnect /\ reconnectPending > 0

\* The first socket closed without ever having connected, and a further
\* socket can be created.
C17_Witness ==
  /\ ClosedUnasked(1)
  /\ CanConnect
  /\ writes = <<>>

\* C18: at most one reconnect timer is pending, and reconnectTimer refers
\* to it: the field is null exactly when no reconnect timer is pending.
C18_OneReconnectTimer ==
  reconnectPending = (IF reconnectTimer THEN 1 ELSE 0)

\* disconnect() was called after the close event of the last socket, while
\* the reconnect timer armed by that event was pending, and cleared it.
C18_Witness ==
  /\ shuttingDown
  /\ socket = 0
  /\ reconnectPending = 0
  /\ Created(St) # {}
  /\ \A k \in Created(St) : sockState[k] = "closed"

\* The requests disconnect() finds in flight and queued, in that order.
Held ==
  (IF currentRequest # 0 THEN <<currentRequest>> ELSE <<>>) \o requestQueue

\* C19: the disconnect() of stop() rejects with the connection-closed error
\* every request that is accepted and not settled when it is called, the
\* one in flight first and the queued ones in FIFO order, leaves
\* currentRequest null, requestQueue empty, connected false and socket
\* null, and a second disconnect() changes nothing.
C19_ShutdownDrains ==
  [][ (~shuttingDown /\ shuttingDown') =>
        /\ \A id \in Ids : Pending(id) => reqs'[id].outcome = "closed"
        /\ settled' = settled \o [i \in 1..Len(Held) |->
                                    [id |-> Held[i], how |-> "closed"]]
        /\ currentRequest' = 0
        /\ requestQueue' = <<>>
        /\ ~connected'
        /\ socket' = 0
        /\ disconnect(St') = St'
    ]_vars

\* The frames matched to a request, and the requests resolved, in a step.
NewMatched == Cardinality({i \in (Len(frames) + 1)..Len(frames') :
                             frames'[i].to # 0})
NewResolved == Cardinality({i \in (Len(settled) + 1)..Len(settled') :
                              settled'[i].how = "resolved"})

\* C20: a frame that arrives while currentRequest is null settles no
\* request, at its arrival or later: in every step only the frames matched
\* to the request in flight resolve a request, and a data event that finds
\* currentRequest null settles nothing, leaves requestQueue and
\* currentRequest unchanged and keeps none of its complete lines.
C20_UnsolicitedFrame ==
  [][ /\ NewResolved = NewMatched
      /\ (currentRequest = 0 /\ Len(frames') > Len(frames)) =>
           LET text == responseBuffer
                       \o Received(SubSeq(wire, 1, Len(wire) - Len(wire')),
                                   socket)
           IN /\ \A i \in (Len(frames) + 1)..Len(frames') : frames'[i].to = 0
              /\ settled' = settled
              /\ reqs' = reqs
              /\ requestQueue' = requestQueue
              /\ currentRequest' = 0
              /\ responseBuffer' = split(text)[Len(split(text))]
    ]_vars

\* A frame arrived while currentRequest was null, and a request accepted
\* after that has been resolved by a later frame.
C20_Witness ==
  \E i, j \in 1..Len(frames) :
    i < j /\ frames[i].to = 0 /\ frames[j].to # 0

\* C21: the timer armed for a request runs for the configured per-command
\* timeout: no request is rejected with the command-timeout error before
\* commandTimeout ms have passed since sendCommand accepted it, so a reply
\* that arrives within that time resolves the request.
C21_ConfiguredTimeout ==
  [][ \A id \in Ids :
        TimeoutFires(id) => now >= reqs[id].armedAt + commandTimeout
    ]_vars

\* A step that handles a socket's connect event.
ConnectEvent ==
  \E k \in Conns : sockState[k] = "connecting" /\ sockState'[k] = "open"

\* Every token of the text was received on the same socket.
OneConnection(t) == \A i, j \in 1..Len(t) : t[i].on = t[j].on

\* C22: responseBuffer is empty when a socket's connect event has been
\* handled, and no line handleData takes from the stream, no value a request
\* is resolved with and no content of responseBuffer holds text received on
\* two sockets.
C22_BufferResetPerConnection ==
  [][ /\ ConnectEvent => responseBuffer' = <<>>
      /\ OneConnection(responseBuffer')
      /\ \A i \in 1..Len(frames') : OneConnection(frames'[i].text)
      /\ \A id \in Ids : OneConnection(reqs'[id].value)
    ]_vars

\* Both sockets have delivered lines, and the second has connected after
\* the first closed and has left the beginning of a line in responseBuffer.
C22_Witness ==
  /\ sockState[1] = "closed"
  /\ sockState[2] = "open"
  /\ responseBuffer # <<>>
  /\ \E i, j \in 1..Len(frames) :
       frames[i].text[1].on = 1 /\ frames[j].text[1].on = 2

\* The number of places that hold request id: its positions in requestQueue,
\* the in-flight slot, and the settled state.
Places(id) ==
  Cardinality({i \in 1..Len(requestQueue) : requestQueue[i] = id})
    + (IF currentRequest = id THEN 1 ELSE 0)
    + (IF reqs[id].outcome # "pending" THEN 1 ELSE 0)

\* C23: every accepted request is in exactly one of requestQueue (once),
\* currentRequest and settled.
C23_RequestLocation ==
  \A id \in Accepted(St) : Places(id) = 1

\* C24: when the timeout fires of the request held in currentRequest, that
\* request is rejected with the command-timeout error; if requestQueue is
\* empty currentRequest becomes null and nothing is written, otherwise the
\* head of requestQueue becomes the request in flight and its command is
\* written in the same step, the rest of the queue keeping its order.
C24_InFlightTimeout ==
  [][ \A id \in Ids :
        (TimeoutFires(id) /\ currentRequest = id) =>
          /\ reqs'[id].outcome = "timeout"
          /\ IF requestQueue = <<>>
             THEN /\ currentRequest' = 0
                  /\ requestQueue' = <<>>
                  /\ writes' = writes
             ELSE LET head == Head(requestQueue) IN
                  /\ currentRequest' = head
                  /\ requestQueue' = Tail(requestQueue)
                  /\ writes' = Append(writes,
                                      [id |-> head, sock |-> socket, prev |-> 0,
                                       text |-> <<reqs[head].command, NL>>])
    ]_vars

\* A step that handles a socket's error event (or the peer's end of the
\* connection): the socket stops, and no call of the program caused it.
ErrorEvent ==
  /\ \E k \in Conns : Live(sockState[k]) /\ sockState'[k] = "ended"
  /\ shuttingDown' = shuttingDown
  /\ started' = started

\* C25: the handling of a socket's error event leaves connected, socket,
\* reconnectTimer, responseBuffer, requestQueue and currentRequest unchanged
\* and settles no request; the requests held when the connection is lost
\* are failed by the handling of the close event that follows, each once.
C25_ErrorIsObservationOnly ==
  [][ /\ ErrorEvent =>
           /\ UNCHANGED <<connected, socket, reconnectTimer, responseBuffer,
                          requestQueue, currentRequest>>
           /\ UNCHANGED <<settled, reqs>>
      /\ CloseEvent =>
           \A id \in Ids :
             (id = currentRequest \/ InQueue(id)) =>
               (reqs'[id].outcome = "closed" /\ reqs'[id].settles = 1)
    ]_vars

\* C26: in every state between two handlers, a non-empty requestQueue has a
\* request in flight before it, whatever the value of isProcessingQueue.
C26_NoIdleStall == requestQueue # <<>> => currentRequest # 0

\* A request is in flight with another queued behind it while
\* isProcessingQueue is false.
C26_Witness ==
  /\ requestQueue # <<>>
  /\ currentRequest # 0
  /\ ~isProcessingQueue

\* C27: socket.write is called only while connected is true, on a socket
\* that has not had its close event.
C27_NoWriteWhenClosed ==
  [][ \A i \in (Len(writes) + 1)..Len(writes') :
        /\ connected'
        /\ writes'[i].sock # 0
        /\ sockState'[writes'[i].sock] # "closed"
    ]_vars

\* C28: a request is resolved only with text received on the socket it was
\* accepted on, and when a socket's connect event has been handled,
\* currentRequest and requestQueue hold no request accepted on an earlier
\* socket.
C28_NoCrossConnection ==
  [][ /\ \A id \in Ids :
           reqs'[id].outcome = "resolved" =>
             \A i \in 1..Len(reqs'[id].value) :
               reqs'[id].value[i].on = reqs'[id].conn
      /\ \A k \in Conns :
           (sockState[k] = "connecting" /\ sockState'[k] = "open") =>
             /\ currentRequest' # 0 => reqs'[currentRequest'].conn = k
             /\ \A i \in 1..Len(requestQueue') :
                  reqs'[requestQueue'[i]].conn = k
    ]_vars

\* C29: the adapter has at most one poll interval timer, the one pollTimer
\* refers to; a timer is set only by the handling of a connect event that
\* finds pollTimer null and shuttingDown false; the handling of a close
\* event and stop() leave no timer, and none exists once stop() was called.
C29_PollingFollowsConnectivity ==
  [][ /\ pollIntervals' = (IF pollTimer' THEN 1 ELSE 0)
      /\ pollIntervals' > pollIntervals =>
           (ConnectEvent /\ ~pollTimer /\ ~shuttingDown)
      /\ CloseEvent => pollIntervals' = 0
      /\ shuttingDown' => pollIntervals' = 0
    ]_vars

\* A socket has connected after stop() was called, and no poll timer runs.
C29_Witness ==
  /\ shuttingDown
  /\ connected
  /\ pollIntervals = 0

\* The position of a command in the configured sensor list.
SensorIndex(command) ==
  CHOOSE i \in 1..NumSensors : sensors[i] = command

\* The requests of run r that are accepted and not settled.
PendingOf(r) == {id \in Ids : reqs[id].run = r /\ Pending(id)}

\* C30: the requests of one pollSensors run are accepted in the configured
\* order of their sensors and one at a time, the next only once the
\* previous has settled; the continuation of a run publishes a state for a
\* sensor exactly when the sensor's sendCommand resolved, and after a
\* rejection as after a resolution it calls sendCommand for the next sensor
\* if there is one; and pollSensors called while not connected changes
\* nothing.
C30_PollErrorIsolation ==
  [][ /\ \A r \in Runs : Cardinality(PendingOf(r)) <= 1
      /\ \A i, j \in Ids :
           (i < j /\ reqs[i].run # 0 /\ reqs[i].run = reqs[j].run) =>
             SensorIndex(reqs[i].command) < SensorIndex(reqs[j].command)
      /\ jobs # <<>> =>
           LET r == Head(jobs)
               id == runs[r].awaiting
               pos == runs[r].pos
               rejected == id = 0 \/ reqs[id].outcome # "resolved"
           IN /\ published' = IF rejected THEN published
                              ELSE Append(published, [run |-> r, sensor |-> pos])
              /\ pos < NumSensors =>
                   /\ runs'[r].pos = pos + 1
                   /\ \/ /\ NumAccepted' = NumAccepted + 1
                         /\ reqs'[NumAccepted'].run = r
                         /\ reqs'[NumAccepted'].command = sensors[pos + 1]
                      \/ /\ NumAccepted' = NumAccepted
                         /\ settled' = Append(settled, NotConnectedError)
      /\ ~connected => pollSensors(St) = St
    ]_vars

\* In one run the first sensor's call was rejected and published nothing,
\* and the second sensor's call resolved and was published.
C30_Witness ==
  \E r \in Runs, id \in Ids :
    /\ reqs[id].run = r
    /\ reqs[id].command = sensors[1]
    /\ reqs[id].outcome = "timeout"
    /\ [run |-> r, sensor |-> 2] \in {published[i] : i \in 1..Len(published)}
    /\ [run |-> r, sensor |-> 1] \notin {published[i] : i \in 1..Len(published)}

====
